---------------------------- MODULE Spec2Model ----------------------------
(***************************************************************************)
(* Order-to-print-job fan-out of the PrintNode label relay.                *)
(*                                                                         *)
(* Two iterations of the service are modelled, selected by `variant`:      *)
(*   "mongo"  the per-unit MongoDB variant (src/unnamed/part_002): one     *)
(*            PrintJob row per unit, dispatched through limit = pLimit(3)  *)
(*   "memory" the in-memory retry variant (src/unnamed/part_000): the      *)
(*            printJobs array, units handled one after another             *)
(*                                                                         *)
(* One step of the model is one turn of the event loop: an HTTP request    *)
(* arriving, or one awaited call (repository, renderer, vendor) settling   *)
(* together with the synchronous continuation that follows it.  A          *)
(* repository call takes effect at the store in the step in which it       *)
(* settles.                                                                *)
(***************************************************************************)
EXTENDS Integers, Sequences, FiniteSets, TLC

(***************************************************************************)
(* Bounds of the model.                                                    *)
(***************************************************************************)
MaxUnits == 2        \* sum of the quantities of an order payload
MaxDeliveries == 2   \* requests to POST /webhooks
MaxRequests == 3     \* requests to POST /webhooks and POST /api/retry-job together
MaxFailures == 2     \* render or submission calls that fail
MaxTasks == 5        \* tasks handed to createLimit(3) on its own
MaxCrons == 2        \* invocations of GET /api/cron/process-jobs in progress at once
MaxEvents == 2       \* events in the body of one POST /printnode-webhook

(***************************************************************************)
(* Program constants.                                                      *)
(***************************************************************************)
Concurrency == 3     \* const limit = pLimit(3)

OrderNumbers == {"#1001", "#1002"}

\* An absent value of a sequence-valued field (error_message, retry_data).
Absent == <<>>
\* An absent printnode_job_id / id: the positive numbers are vendor job ids.
NoJobId == 0

VARIABLES
  variant,     \* which iteration of the service runs
  line_items,  \* the line_items of the order payloads delivered in this run
  now,         \* the value Date.now() returned last
  failures,    \* render and submission calls that have failed so far
  webhooks,    \* POST /webhooks requests, in arrival order, with their response
  retries,     \* POST /api/retry-job requests, in arrival order
  PrintJob,    \* mongo: the PrintJob collection, keyed by job_attempt_id
  running,     \* mongo: the limiter's count of started, unsettled tasks
  queue,       \* mongo: the limiter's queue of tasks not yet started
  task,        \* mongo: position of each limit(async () => ...) task
  printJobs,   \* memory: the printJobs array, as references into `heap`
  heap,        \* memory: the job record objects, in allocation order
  PRINTNODE_WEBHOOK_SECRET,  \* process.env.PRINTNODE_WEBHOOK_SECRET
  PrintNodeEvent             \* the stored PrintNode events, in insertion order

mongoVars == <<PrintJob, running, queue, task>>
memoryVars == <<printJobs, heap>>
eventVars == <<PRINTNODE_WEBHOOK_SECRET, PrintNodeEvent>>

vars == <<variant, line_items, now, failures, webhooks, retries,
          PrintJob, running, queue, task, printJobs, heap,
          PRINTNODE_WEBHOOK_SECRET, PrintNodeEvent>>

(***************************************************************************)
(* Order payloads.  A line item is [id, quantity]; id = 0 stands for a     *)
(* line item without an `id` (any falsy id takes the same branch of        *)
(* `item.id || 'no-id'`).  The other fields of an item (title, sku, ...)   *)
(* are copied verbatim and decide nothing.                                 *)
(***************************************************************************)
ItemAt(i) == {[id |-> x, quantity |-> q] : x \in {0, 100 + i}, q \in 1..MaxUnits}

RECURSIVE SumQuantity(_)
SumQuantity(items) ==
  IF items = <<>> THEN 0
  ELSE Head(items).quantity + SumQuantity(Tail(items))

RECURSIVE PayloadsOfLen(_)
PayloadsOfLen(n) ==
  IF n = 0 THEN {<<>>}
  ELSE {Append(p, it) : p \in PayloadsOfLen(n - 1), it \in ItemAt(n)}

Payloads ==
  {p \in UNION {PayloadsOfLen(n) : n \in 0..MaxUnits} : SumQuantity(p) <= MaxUnits}

\* The units of an order in dispatch order: <<i, j>> is copy j of line item i
\* (the nested loops `for (const item of lineItems) for (j = 0; j < item.quantity; j++)`).
RECURSIVE UnitsFrom(_, _)
UnitsFrom(items, i) ==
  IF i > Len(items) THEN <<>>
  ELSE [j \in 1..items[i].quantity |-> <<i, j>>] \o UnitsFrom(items, i + 1)

Units(items) == UnitsFrom(items, 1)

(***************************************************************************)
(* Identifiers.  A job_attempt_id is the sequence of the segments that the *)
(* template string joins with "-"; order numbers and item ids hold no "-". *)
(***************************************************************************)
\* item.id || 'no-id'
ItemKey(item, i) == IF item.id # 0 THEN ToString(item.id) ELSE "no-id"

\* `${orderNumber}-${item.id || 'no-id'}-${j + 1}`
JobAttemptId(o, items, u) == <<o, ItemKey(items[u[1]], u[1]), ToString(u[2])>>

\* `${originalJob.job_attempt_id}-retry-${Date.now()}`
RetryAttemptId(id, t) == id \o <<"retry", ToString(t)>>

IsRetryId(id) == \E k \in 1..Len(id) : id[k] = "retry"

\* JSON.stringify({ item, orderInfo }) and its JSON.parse: the stored string
\* is modelled by the one-element sequence of the value it parses back to.
RetryData(o, item) == <<[item |-> item, orderInfo |-> [orderNumber |-> o]]>>

\* An id no row ever has, for requests naming an unknown attempt.
UnknownAttemptId == <<"#0000", "no-id", "1">>

(***************************************************************************)
(* The external collaborators.  Each call either succeeds or fails; a      *)
(* vendor job id is a number unique to the call, an error message names    *)
(* the call that raised it.                                                *)
(***************************************************************************)
TaskCall(t) == t[1] * 10 + t[2]
RetryCall(r) == 100 + r

\* response.data of sendToPrintNode
PrintNodeJobId(call) == call

\* error.message of a failed createProductLabelPDF / sendToPrintNode
ErrorMessage(kind, call) == <<kind, ToString(call)>>

CanFail == failures < MaxFailures


(***************************************************************************)
(* The limiter.  limit = pLimit(3) runs at most Concurrency tasks and      *)
(* starts the others in submission order as slots free; the repository's   *)
(* own createLimit states the same contract in code, and the operators     *)
(* below follow it line by line.  A limiter value is [running, queue] plus *)
(* `started`, the tasks whose function was called in this turn.            *)
(***************************************************************************)
Limiter(r, q) == [running |-> r, queue |-> q, started |-> {}]

\* A process() that tests only the queue, not the ceiling.
ProcessNoCeiling(lim) ==
  IF lim.queue = <<>> THEN lim
  ELSE [running |-> lim.running + 1,
        queue   |-> Tail(lim.queue),
        started |-> lim.started \cup {Head(lim.queue)}]

\* A process() that takes the entry pushed last: queue.pop().
ProcessLastFirst(lim) ==
  IF lim.running >= Concurrency \/ lim.queue = <<>> THEN lim
  ELSE [running |-> lim.running + 1,
        queue   |-> SubSeq(lim.queue, 1, Len(lim.queue) - 1),
        started |-> lim.started \cup {lim.queue[Len(lim.queue)]}]

\* process(): if (running >= concurrency || queue.length === 0) return;
\*            running++; const { fn } = queue.shift(); ... await fn()
Process(lim) ==
  IF lim.running >= Concurrency \/ lim.queue = <<>> THEN lim
  ELSE [running |-> lim.running + 1,
        queue   |-> Tail(lim.queue),
        started |-> lim.started \cup {Head(lim.queue)}]

\* limit(fn): queue.push({ fn, resolve, reject }); process();
Submit(lim, t) == Process([lim EXCEPT !.queue = Append(@, t)])

RECURSIVE SubmitAll(_, _)
SubmitAll(lim, ts) ==
  IF ts = <<>> THEN lim ELSE SubmitAll(Submit(lim, Head(ts)), Tail(ts))

\* A finally block that frees the slot without calling process().
ReleaseNoProcess(lim) == [lim EXCEPT !.running = @ - 1]

\* finally { running--; process(); }
Release(lim) == Process([lim EXCEPT !.running = @ - 1])

(***************************************************************************)
(* The per-unit MongoDB variant (src/unnamed/part_002).                    *)
(***************************************************************************)
TaskIds == (1..MaxDeliveries) \X (1..MaxUnits)

Requests == Len(webhooks) + Len(retries)

CanDeliver == Len(webhooks) < MaxDeliveries /\ Requests < MaxRequests
CanRetry == Requests < MaxRequests

\* Positions of a task: "queued" in the limiter; "save" awaiting the insert
\* of its pending row; "render" and "send" awaiting the two external calls;
\* fulfilled as "sent" or "failed"; "rejected" when the insert threw.
Fulfilled == {"sent", "failed"}
Settled == Fulfilled \cup {"rejected"}

Accepted(o) == [status |-> 200, message |-> "accepted", order |-> o]
DuplicateIgnored(o) == [status |-> 200, message |-> "Duplicate webhook ignored.", order |-> o]

\* A lookup on the wrong field: no job_attempt_id equals an order number.
ExistingJobByAttemptId(o) == \E id \in DOMAIN PrintJob : PrintJob[id].job_attempt_id = <<o>>

\* PrintJob.findOne({ order_id: orderNumber })
ExistingJob(o) == \E id \in DOMAIN PrintJob : PrintJob[id].order_id = o

\* new PrintJob({ job_attempt_id, order_id, ..., status: 'pending', retry_data })
PendingJob(id, o, item) ==
  [job_attempt_id   |-> id,
   order_id         |-> o,
   status           |-> "pending",
   printnode_job_id |-> NoJobId,
   error_message    |-> Absent,
   retry_data       |-> RetryData(o, item)]

TaskOrder(t) == webhooks[t[1]].order
TaskUnit(t) == Units(line_items)[t[2]]
TaskItem(t) == line_items[TaskUnit(t)[1]]
TaskAttemptId(t) == JobAttemptId(TaskOrder(t), line_items, TaskUnit(t))

\* A handler that has not answered when it hands the order over.
AcceptResponseNotYet(o) == [status |-> 0, message |-> "", order |-> o]

\* What POST /webhooks has answered when processOrderInBackground is called:
\* res.status(200).json({ success: true, message: `Order ${orderNumber} accepted.` })
AcceptResponse(o) == Accepted(o)

\* A task that renders before it has saved its row.
TaskStartRenderFirst == "render"

\* Where the function handed to limit() first suspends: `await newJob.save()`
\* of the pending row.
TaskStart == "save"

\* POST /webhooks: the idempotency gate, the acknowledgement, and the
\* synchronous part of processOrderInBackground (every unit handed to limit).
MongoWebhook(o) ==
  /\ variant = "mongo"
  /\ CanDeliver
  /\ IF ExistingJob(o)
     THEN /\ webhooks' = Append(webhooks,
                [order |-> o, response |-> DuplicateIgnored(o), pass |-> "none"])
          /\ UNCHANGED <<task, running, queue>>
     ELSE LET d   == Len(webhooks) + 1
              ts  == [k \in 1..Len(Units(line_items)) |-> <<d, k>>]
              lim == SubmitAll(Limiter(running, queue), ts)
          IN /\ webhooks' = Append(webhooks,
                   [order |-> o, response |-> AcceptResponse(o),
                    pass |-> IF ts = <<>> THEN "resolved" ELSE "running"])
             /\ task' = [t \in TaskIds |->
                           IF t \in lim.started THEN TaskStart
                           ELSE IF t[1] = d /\ t[2] <= Len(ts) THEN "queued"
                           ELSE task[t]]
             /\ running' = lim.running
             /\ queue' = lim.queue
  /\ UNCHANGED <<variant, eventVars, line_items, now, failures, retries, PrintJob, memoryVars>>

\* A task settles with position p: the limiter frees its slot and starts the
\* next queued task; `await Promise.all(printTasks)` rejects with the first
\* rejection and resolves when every task is fulfilled.
SettleTask(t, p) ==
  LET lim   == Release(Limiter(running, queue))
      task1 == [x \in TaskIds |->
                  IF x = t THEN p
                  ELSE IF x \in lim.started THEN TaskStart ELSE task[x]]
      d     == t[1]
      pass1 == IF webhooks[d].pass # "running" THEN webhooks[d].pass
               ELSE IF p = "rejected" THEN "caught"
               ELSE IF \A k \in 1..MaxUnits : task1[<<d, k>>] \in Fulfilled \cup {"none"}
                    THEN "resolved"
               ELSE "running"
  IN /\ task' = task1
     /\ running' = lim.running
     /\ queue' = lim.queue
     /\ webhooks' = [webhooks EXCEPT ![d].pass = pass1]

\* A collection without the unique index: no insert is refused.
NoUniqueIndex(id) == FALSE

\* job_attempt_id: { type: String, unique: true, required: true }: the
\* index refuses the insert of a document whose job_attempt_id is stored.
DuplicateKey(id) == id \in DOMAIN PrintJob

\* await newJob.save() of the pending row.  The unique index on
\* job_attempt_id rejects a second row with the same id: save() throws
\* outside the try block and the task rejects.
TaskSave(t) ==
  /\ variant = "mongo"
  /\ task[t] = "save"
  /\ LET id == TaskAttemptId(t)
     IN IF DuplicateKey(id)
        THEN /\ SettleTask(t, "rejected")
             /\ UNCHANGED PrintJob
        ELSE /\ PrintJob' = PrintJob @@ (id :> PendingJob(id, TaskOrder(t), TaskItem(t)))
             /\ task' = [task EXCEPT ![t] = "render"]
             /\ UNCHANGED <<running, queue, webhooks>>
  /\ UNCHANGED <<variant, eventVars, line_items, now, failures, retries, memoryVars>>

\* catch (error) { newJob.status = 'failed'; newJob.error_message = error.message;
\*                 await newJob.save(); }
TaskFail(t, kind) ==
  /\ CanFail
  /\ failures' = failures + 1
  /\ PrintJob' = [PrintJob EXCEPT
        ![TaskAttemptId(t)].status = "failed",
        ![TaskAttemptId(t)].error_message = ErrorMessage(kind, TaskCall(t))]
  /\ SettleTask(t, "failed")

\* await createProductLabelPDF(item, orderInfo) settles.
TaskRender(t) ==
  /\ variant = "mongo"
  /\ task[t] = "render"
  /\ \/ /\ task' = [task EXCEPT ![t] = "send"]
        /\ UNCHANGED <<PrintJob, failures, running, queue, webhooks>>
     \/ TaskFail(t, "render")
  /\ UNCHANGED <<variant, eventVars, line_items, now, retries, memoryVars>>

\* await sendToPrintNode(pdfBase64, printTitle) settles; on success
\* newJob.status = 'sent'; newJob.printnode_job_id = printResponse; save().
TaskSend(t) ==
  /\ variant = "mongo"
  /\ task[t] = "send"
  /\ \/ /\ PrintJob' = [PrintJob EXCEPT
              ![TaskAttemptId(t)].status = "sent",
              ![TaskAttemptId(t)].printnode_job_id = PrintNodeJobId(TaskCall(t))]
        /\ SettleTask(t, "sent")
        /\ UNCHANGED failures
     \/ TaskFail(t, "submit")
  /\ UNCHANGED <<variant, eventVars, line_items, now, retries, memoryVars>>

\* What Date.now() may return: the clock never runs backwards, and only
\* the values read matter.
DateNow == {now, now + 1}

\* PrintJob.findOne({ job_attempt_id: jobAttemptId }) followed by
\* `if (!originalJob || !originalJob.retry_data)`.
Retryable(id) == id \in DOMAIN PrintJob /\ PrintJob[id].retry_data # Absent

RetryOf(r) == retries[r]

\* The handler's parsed snapshot: JSON.parse(originalJob.retry_data).
RetrySnapshot(r) == RetryOf(r).retry_data[1]

\* A create that does not copy retry_data to the new row.
RetryJobRowNoSnapshot(newId, response, retryData) ==
  [job_attempt_id   |-> newId,
   order_id         |-> retryData[1].orderInfo.orderNumber,
   status           |-> "sent",
   printnode_job_id |-> response,
   error_message    |-> Absent,
   retry_data       |-> Absent]

\* A create that leaves status to the schema default.
RetryJobRowDefaultStatus(newId, response, retryData) ==
  [job_attempt_id   |-> newId,
   order_id         |-> retryData[1].orderInfo.orderNumber,
   status           |-> "pending",
   printnode_job_id |-> response,
   error_message    |-> Absent,
   retry_data       |-> retryData]

\* PrintJob.create({ job_attempt_id: newJobAttemptId, printnode_job_id: printResponse,
\*                   order_id: orderInfo.orderNumber, ..., status: 'sent',
\*                   retry_data: originalJob.retry_data })
RetryJobRow(newId, response, retryData) ==
  [job_attempt_id   |-> newId,
   order_id         |-> retryData[1].orderInfo.orderNumber,
   status           |-> "sent",
   printnode_job_id |-> response,
   error_message    |-> Absent,
   retry_data       |-> retryData]

\* POST /api/retry-job/:jobAttemptId arrives: the lookup, then either the
\* 404 answer or the start of the render.
MongoRetryJob(id) ==
  /\ variant = "mongo"
  /\ CanRetry
  /\ retries' = Append(retries,
        IF Retryable(id)
        THEN [target |-> id, at |-> "render", retry_data |-> PrintJob[id].retry_data,
              error |-> Absent]
        ELSE [target |-> id, at |-> "404", retry_data |-> Absent, error |-> Absent])
  /\ UNCHANGED <<variant, eventVars, line_items, now, failures, webhooks, mongoVars, memoryVars>>

\* catch (error) { res.status(500).json({ ..., error: error.message }) }
RetryAnswer500(r, message) ==
  retries' = [retries EXCEPT ![r].at = "500", ![r].error = message]

\* await createProductLabelPDF(item, orderInfo) of the retry settles.
MongoRetryRender(r) ==
  /\ variant = "mongo"
  /\ RetryOf(r).at = "render"
  /\ \/ /\ retries' = [retries EXCEPT ![r].at = "send"]
        /\ UNCHANGED failures
     \/ /\ CanFail
        /\ failures' = failures + 1
        /\ RetryAnswer500(r, ErrorMessage("render", RetryCall(r)))
  /\ UNCHANGED <<variant, eventVars, line_items, now, webhooks, mongoVars, memoryVars>>

\* await sendToPrintNode(pdfBase64, printTitle) of the retry settles; on
\* success the new row is created under `${job_attempt_id}-retry-${Date.now()}`,
\* and a duplicate key makes PrintJob.create throw into the catch block.
MongoRetrySend(r) ==
  /\ variant = "mongo"
  /\ RetryOf(r).at = "send"
  /\ \/ /\ CanFail
        /\ failures' = failures + 1
        /\ RetryAnswer500(r, ErrorMessage("submit", RetryCall(r)))
        /\ UNCHANGED <<now, PrintJob>>
     \/ \E t \in DateNow :
          LET newId == RetryAttemptId(RetryOf(r).target, t)
          IN /\ now' = t
             /\ UNCHANGED failures
             /\ IF DuplicateKey(newId)
                THEN /\ RetryAnswer500(r, ErrorMessage("duplicate key", RetryCall(r)))
                     /\ UNCHANGED PrintJob
                ELSE /\ PrintJob' = PrintJob @@
                          (newId :> RetryJobRow(newId, PrintNodeJobId(RetryCall(r)),
                                                RetryOf(r).retry_data))
                     /\ retries' = [retries EXCEPT ![r].at = "200"]
  /\ UNCHANGED <<variant, eventVars, line_items, webhooks, running, queue, task, memoryVars>>

InitMongo ==
  /\ variant = "mongo"
  /\ line_items \in Payloads
  /\ now = 0
  /\ failures = 0
  /\ webhooks = <<>>
  /\ retries = <<>>
  /\ PrintJob = <<>>
  /\ running = 0
  /\ queue = <<>>
  /\ task = [t \in TaskIds |-> "none"]
  /\ printJobs = <<>>
  /\ heap = <<>>
  /\ PRINTNODE_WEBHOOK_SECRET = Absent
  /\ PrintNodeEvent = <<>>

NextMongo ==
  \/ \E o \in OrderNumbers : MongoWebhook(o)
  \/ \E t \in TaskIds : TaskSave(t)
  \/ \E t \in TaskIds : TaskRender(t)
  \/ \E t \in TaskIds : TaskSend(t)
  \/ \E id \in DOMAIN PrintJob \cup {UnknownAttemptId} : MongoRetryJob(id)
  \/ \E r \in DOMAIN retries : MongoRetryRender(r)
  \/ \E r \in DOMAIN retries : MongoRetrySend(r)

SpecMongo == InitMongo /\ [][NextMongo]_vars

(***************************************************************************)
(* The in-memory retry variant (src/unnamed/part_000).  A job record is an *)
(* object shared by the printJobs array, the handler that created it and   *)
(* any retry handler that found it: `heap` holds the objects, printJobs    *)
(* and the handlers hold references (indices into heap).  The `timestamp`  *)
(* of a record is display data and is not part of the record here.         *)
(***************************************************************************)
JobsCap == 100       \* if (printJobs.length > 100) printJobs = printJobs.slice(0, 100)

NoResponse == [status |-> 0]

\* `${orderNumber}-${item.id || i}-${j + 1}`, i the 0-based index of the item
MemoryItemKey(item, i) == IF item.id # 0 THEN ToString(item.id) ELSE ToString(i - 1)

MemoryJobAttemptId(o, items, u) ==
  <<o, MemoryItemKey(items[u[1]], u[1]), ToString(u[2])>>

\* const jobRecord = { id: printResponse, jobAttemptId, orderId, ..., status: 'sent' }
SentRecord(response, id, o) ==
  [id |-> response, jobAttemptId |-> id, orderId |-> o, status |-> "sent",
   error |-> Absent, retryData |-> Absent]

\* const failedJobRecord = { id: null, jobAttemptId, orderId, ..., status: 'failed',
\*                           error: error.message, retryData: { item, orderInfo } }
FailedRecord(message, id, o, item) ==
  [id |-> NoJobId, jobAttemptId |-> id, orderId |-> o, status |-> "failed",
   error |-> message, retryData |-> <<[item |-> item, orderInfo |-> [orderNumber |-> o]]>>]

\* Keep only last 100 jobs
KeepLast(jobs) == IF Len(jobs) > JobsCap THEN SubSeq(jobs, 1, JobsCap) ELSE jobs

\* printResults.filter(r => r.status === st).length, on the live objects
CountStatus(results, hp, st) ==
  Cardinality({i \in DOMAIN results : hp[results[i]].status = st})

\* res.status(200).json({ success: true, printed, failed, results })
MemoryResponse(results, hp) ==
  [status  |-> 200,
   printed |-> CountStatus(results, hp, "sent"),
   failed  |-> CountStatus(results, hp, "failed")]

MemoryUnit(d) == Units(line_items)[webhooks[d].unit]
MemoryItem(d) == line_items[MemoryUnit(d)[1]]
MemoryAttemptId(d) == MemoryJobAttemptId(webhooks[d].order, line_items, MemoryUnit(d))

\* The handler h leaves its current unit with the array and the heap as
\* given: the next iteration of the nested loops starts its render, or the
\* loops end, the array is cut to its cap and the response is sent.
MemoryContinue(d, h, jobs, hp) ==
  IF h.unit < Len(Units(line_items))
  THEN /\ webhooks' = [webhooks EXCEPT ![d] = [h EXCEPT !.unit = @ + 1, !.phase = "render"]]
       /\ printJobs' = jobs
       /\ heap' = hp
  ELSE /\ webhooks' = [webhooks EXCEPT ![d] =
              [h EXCEPT !.phase = "done", !.response = MemoryResponse(h.results, hp)]]
       /\ printJobs' = KeepLast(jobs)
       /\ heap' = hp

\* printJobs.unshift(record); printResults.push(record);
MemoryRecord(d, rec, last) ==
  LET ref == Len(heap) + 1
      h   == [webhooks[d] EXCEPT !.results = Append(@, ref)]
  IN IF last
     THEN MemoryContinue(d, h, <<ref>> \o printJobs, Append(heap, rec))
     ELSE /\ webhooks' = [webhooks EXCEPT ![d] = [h EXCEPT !.phase = "delay"]]
          /\ printJobs' = <<ref>> \o printJobs
          /\ heap' = Append(heap, rec)

\* POST /webhooks arrives: no idempotency gate in this variant.
MemoryWebhook(o) ==
  /\ variant = "memory"
  /\ CanDeliver
  /\ LET d == Len(webhooks) + 1
         h == [order |-> o, unit |-> 0, phase |-> "new", results |-> <<>>,
               response |-> NoResponse]
     IN /\ webhooks' = [Append(webhooks, h) EXCEPT ![d] =
              IF Len(Units(line_items)) > 0
              THEN [h EXCEPT !.unit = 1, !.phase = "render"]
              ELSE [h EXCEPT !.phase = "done", !.response = MemoryResponse(<<>>, heap)]]
        /\ printJobs' = IF Len(Units(line_items)) > 0 THEN printJobs ELSE KeepLast(printJobs)
  /\ UNCHANGED <<variant, eventVars, line_items, now, failures, retries, heap, mongoVars>>

\* The inner catch: the failed record is stored and the loops go on.
MemoryUnitFailed(d, kind) ==
  /\ CanFail
  /\ failures' = failures + 1
  /\ MemoryRecord(d, FailedRecord(ErrorMessage(kind, TaskCall(<<d, webhooks[d].unit>>)),
                                  MemoryAttemptId(d), webhooks[d].order, MemoryItem(d)),
                  TRUE)

\* await createProductLabelPDF(item, orderInfo) settles.
MemoryRender(d) ==
  /\ variant = "memory"
  /\ webhooks[d].phase = "render"
  /\ \/ /\ webhooks' = [webhooks EXCEPT ![d].phase = "send"]
        /\ UNCHANGED <<failures, printJobs, heap>>
     \/ MemoryUnitFailed(d, "render")
  /\ UNCHANGED <<variant, eventVars, line_items, now, retries, mongoVars>>

\* await sendToPrintNode(pdfBase64, printTitle) settles.
MemorySend(d) ==
  /\ variant = "memory"
  /\ webhooks[d].phase = "send"
  /\ \/ /\ UNCHANGED failures
        /\ MemoryRecord(d, SentRecord(PrintNodeJobId(TaskCall(<<d, webhooks[d].unit>>)),
                                      MemoryAttemptId(d), webhooks[d].order), FALSE)
     \/ MemoryUnitFailed(d, "submit")
  /\ UNCHANGED <<variant, eventVars, line_items, now, retries, mongoVars>>

\* await new Promise(resolve => setTimeout(resolve, 500)) settles.
MemoryDelay(d) ==
  /\ variant = "memory"
  /\ webhooks[d].phase = "delay"
  /\ MemoryContinue(d, webhooks[d], printJobs, heap)
  /\ UNCHANGED <<variant, eventVars, line_items, now, failures, retries, mongoVars>>

\* printJobs.find(job => job.jobAttemptId === jobAttemptId): the first match,
\* 0 when there is none.
RECURSIVE FindJob(_, _)
FindJob(jobs, id) ==
  IF jobs = <<>> THEN 0
  ELSE IF heap[Head(jobs)].jobAttemptId = id THEN Head(jobs)
  ELSE FindJob(Tail(jobs), id)

\* The three early returns of POST /api/retry-job/:jobAttemptId.
MemoryRetryDisposition(ref) ==
  IF ref = 0 THEN "404"
  ELSE IF heap[ref].status # "failed" THEN "400"
  ELSE IF heap[ref].retryData = Absent THEN "400"
  ELSE "render"

\* A success path that forgets `jobToRetry.error = null`.
RetrySucceededKeepsError(rec, response) ==
  [rec EXCEPT !.id = response, !.status = "sent", !.retryData = Absent]

\* jobToRetry.id = printResponse; jobToRetry.status = 'sent';
\* jobToRetry.error = null; delete jobToRetry.retryData;
RetrySucceededRecord(rec, response) ==
  [rec EXCEPT !.id = response, !.status = "sent", !.error = Absent, !.retryData = Absent]

\* A catch block that cleans up the retry data as the success path does.
RetryFailedDropsRetryData(rec, message) ==
  [rec EXCEPT !.error = message, !.retryData = Absent]

\* catch: jobToRetry.error = error.message;
RetryFailedRecord(rec, message) ==
  [rec EXCEPT !.error = message]

MemoryRetryJob(id) ==
  /\ variant = "memory"
  /\ CanRetry
  /\ LET ref == FindJob(printJobs, id)
     IN retries' = Append(retries,
          [target |-> id, ref |-> ref, at |-> MemoryRetryDisposition(ref),
           retry_data |-> IF MemoryRetryDisposition(ref) = "render"
                          THEN heap[ref].retryData ELSE Absent,
           error |-> Absent])
  /\ UNCHANGED <<variant, eventVars, line_items, now, failures, webhooks, mongoVars, memoryVars>>

MemoryRetryFailed(r, kind) ==
  /\ CanFail
  /\ failures' = failures + 1
  /\ heap' = [heap EXCEPT ![RetryOf(r).ref] =
                RetryFailedRecord(@, ErrorMessage(kind, RetryCall(r)))]
  /\ RetryAnswer500(r, ErrorMessage(kind, RetryCall(r)))

\* await createProductLabelPDF(item, orderInfo) of the retry settles.
MemoryRetryRender(r) ==
  /\ variant = "memory"
  /\ RetryOf(r).at = "render"
  /\ \/ /\ retries' = [retries EXCEPT ![r].at = "send"]
        /\ UNCHANGED <<failures, heap>>
     \/ MemoryRetryFailed(r, "render")
  /\ UNCHANGED <<variant, eventVars, line_items, now, webhooks, printJobs, mongoVars>>

\* await sendToPrintNode(pdfBase64, printTitle) of the retry settles.
MemoryRetrySend(r) ==
  /\ variant = "memory"
  /\ RetryOf(r).at = "send"
  /\ \/ /\ UNCHANGED failures
        /\ heap' = [heap EXCEPT ![RetryOf(r).ref] =
                      RetrySucceededRecord(@, PrintNodeJobId(RetryCall(r)))]
        /\ retries' = [retries EXCEPT ![r].at = "200"]
     \/ MemoryRetryFailed(r, "submit")
  /\ UNCHANGED <<variant, eventVars, line_items, now, webhooks, printJobs, mongoVars>>

StoredAttemptIds == {heap[printJobs[i]].jobAttemptId : i \in DOMAIN printJobs}

InitMemory ==
  /\ variant = "memory"
  /\ line_items \in Payloads
  /\ now = 0
  /\ failures = 0
  /\ webhooks = <<>>
  /\ retries = <<>>
  /\ PrintJob = <<>>
  /\ running = 0
  /\ queue = <<>>
  /\ task = [t \in TaskIds |-> "none"]
  /\ printJobs = <<>>
  /\ heap = <<>>
  /\ PRINTNODE_WEBHOOK_SECRET = Absent
  /\ PrintNodeEvent = <<>>

NextMemory ==
  \/ \E o \in OrderNumbers : MemoryWebhook(o)
  \/ \E d \in DOMAIN webhooks : MemoryRender(d)
  \/ \E d \in DOMAIN webhooks : MemorySend(d)
  \/ \E d \in DOMAIN webhooks : MemoryDelay(d)
  \/ \E id \in StoredAttemptIds \cup {UnknownAttemptId} : MemoryRetryJob(id)
  \/ \E r \in DOMAIN retries : MemoryRetryRender(r)
  \/ \E r \in DOMAIN retries : MemoryRetrySend(r)

SpecMemory == InitMemory /\ [][NextMemory]_vars

\* GET /api/jobs: res.json([...printJobs].sort(by timestamp, newest first)).
\* The sort permutes the records of the array; none is dropped.
ApiJobs == [i \in DOMAIN printJobs |-> heap[printJobs[i]]]

\* The array after earlier deliveries of a one-unit order #1000 have filled
\* it to the cap: the state every POST /webhooks leaves once JobsCap units
\* have been recorded.
EarlierRecord == SentRecord(PrintNodeJobId(0), <<"#1000", "900", "1">>, "#1000")

InitMemoryFull ==
  /\ variant = "memory"
  /\ line_items \in Payloads
  /\ now = 0
  /\ failures = 0
  /\ webhooks = <<>>
  /\ retries = <<>>
  /\ PrintJob = <<>>
  /\ running = 0
  /\ queue = <<>>
  /\ task = [t \in TaskIds |-> "none"]
  /\ printJobs = [i \in 1..JobsCap |-> i]
  /\ heap = [i \in 1..JobsCap |-> EarlierRecord]
  /\ PRINTNODE_WEBHOOK_SECRET = Absent
  /\ PrintNodeEvent = <<>>

NextMemoryWebhooks ==
  \/ \E o \in OrderNumbers : MemoryWebhook(o)
  \/ \E d \in DOMAIN webhooks : MemoryRender(d)
  \/ \E d \in DOMAIN webhooks : MemorySend(d)
  \/ \E d \in DOMAIN webhooks : MemoryDelay(d)

\* POST /webhooks requests arriving when the array is full.
SpecMemoryFull == InitMemoryFull /\ [][NextMemoryWebhooks]_vars

\* Both implementations of POST /api/retry-job, each run on its own.
SpecRetryJob == (InitMongo \/ InitMemory) /\ [][NextMongo \/ NextMemory]_vars

(***************************************************************************)
(* The per-unit MongoDB variant started on a collection that already holds *)
(* a row written without retry_data: the schema declares                   *)
(* `retry_data: String` as optional, and the retry handler tests           *)
(* `!originalJob.retry_data` for such rows.                                *)
(***************************************************************************)
StoredJobId == <<"#0999", "555", "1">>

StoredJob ==
  [job_attempt_id   |-> StoredJobId,
   order_id         |-> "#0999",
   status           |-> "sent",
   printnode_job_id |-> 1,
   error_message    |-> Absent,
   retry_data       |-> Absent]

InitMongoStored ==
  /\ variant = "mongo"
  /\ line_items \in Payloads
  /\ now = 0
  /\ failures = 0
  /\ webhooks = <<>>
  /\ retries = <<>>
  /\ PrintJob = (StoredJobId :> StoredJob)
  /\ running = 0
  /\ queue = <<>>
  /\ task = [t \in TaskIds |-> "none"]
  /\ printJobs = <<>>
  /\ heap = <<>>
  /\ PRINTNODE_WEBHOOK_SECRET = Absent
  /\ PrintNodeEvent = <<>>

SpecMongoStored == InitMongoStored /\ [][NextMongo]_vars

(***************************************************************************)
(* Order payloads without an order number.  With neither `name` nor        *)
(* `order_number`, `order.name || order.order_number` is undefined: the    *)
(* template strings print it as "undefined", a row saved with it has no    *)
(* order_id, and findOne({ order_id: undefined }) matches the rows that    *)
(* have none.  The one token stands for all three.                         *)
(***************************************************************************)
NoOrderNumber == "undefined"

\* POST /webhooks with a payload that has no order number.
MongoWebhookNoNumber == MongoWebhook(NoOrderNumber)

NextMongoAnyOrder == NextMongo \/ MongoWebhookNoNumber

SpecMongoAnyOrder == InitMongo /\ [][NextMongoAnyOrder]_vars

(***************************************************************************)
(* Repository writes that throw (connection lost, write refused).  Each    *)
(* action below is a path of the task function or of the retry handler on  *)
(* which an awaited `save()` / `create()` rejects for a reason other than  *)
(* the unique index; a failed write changes nothing in the collection.     *)
(* Failed writes count against the same budget as failed external calls.   *)
(***************************************************************************)
\* `await newJob.save()` of the pending row throws, outside the try block:
\* the task rejects and the unit has no row.
TaskSaveThrows(t) ==
  /\ variant = "mongo"
  /\ task[t] = "save"
  /\ CanFail
  /\ failures' = failures + 1
  /\ SettleTask(t, "rejected")
  /\ UNCHANGED <<variant, eventVars, line_items, now, retries, PrintJob, memoryVars>>

\* sendToPrintNode succeeded, newJob.status = 'sent' and
\* newJob.printnode_job_id = printResponse were assigned, and the save of
\* line 268 throws: the catch block assigns status 'failed' and the error
\* message and saves the document again.  Whether that second save also
\* writes the printnode_job_id assigned before the failed one depends on the
\* document still counting the path as modified.
TaskSentSaveThrows(t) ==
  /\ variant = "mongo"
  /\ task[t] = "send"
  /\ CanFail
  /\ failures' = failures + 1
  /\ \E modified \in BOOLEAN :
       PrintJob' = [PrintJob EXCEPT
          ![TaskAttemptId(t)].status = "failed",
          ![TaskAttemptId(t)].error_message = ErrorMessage("save", TaskCall(t)),
          ![TaskAttemptId(t)].printnode_job_id =
              IF modified THEN PrintNodeJobId(TaskCall(t)) ELSE @]
  /\ SettleTask(t, "failed")
  /\ UNCHANGED <<variant, eventVars, line_items, now, retries, memoryVars>>

\* The render, the submission or the save of line 268 threw, and the save
\* inside the catch block (line 275) throws as well: the error leaves the
\* task function, the task rejects and the row stays as it was.
TaskCatchSaveThrows(t) ==
  /\ variant = "mongo"
  /\ task[t] \in {"render", "send"}
  /\ failures + 2 <= MaxFailures
  /\ failures' = failures + 2
  /\ SettleTask(t, "rejected")
  /\ UNCHANGED <<variant, eventVars, line_items, now, retries, PrintJob, memoryVars>>

\* PrintJob.create of the retry throws after a successful submission.
MongoRetryCreateThrows(r) ==
  /\ variant = "mongo"
  /\ RetryOf(r).at = "send"
  /\ CanFail
  /\ failures' = failures + 1
  /\ RetryAnswer500(r, ErrorMessage("save", RetryCall(r)))
  /\ UNCHANGED <<variant, eventVars, line_items, now, webhooks, mongoVars, memoryVars>>

NextMongoFaults ==
  \/ NextMongo
  \/ \E t \in TaskIds : TaskSaveThrows(t)
  \/ \E t \in TaskIds : TaskSentSaveThrows(t)
  \/ \E t \in TaskIds : TaskCatchSaveThrows(t)
  \/ \E r \in DOMAIN retries : MongoRetryCreateThrows(r)

SpecMongoFaults == InitMongo /\ [][NextMongoFaults]_vars

\* `await PrintJob.findOne({ order_id })` of POST /webhooks throws.  The
\* handler has no try/catch, so its promise rejects: Express 4 ignores the
\* rejection and the request gets no response; Express 5 passes it to the
\* default error handler, which answers 500.  processOrderInBackground is
\* not reached in either case.
NoAnswer(o) == [status |-> 0, message |-> "", order |-> o]
ExpressError500(o) == [status |-> 500, message |-> "Internal Server Error", order |-> o]

MongoWebhookLookupThrows(o) ==
  /\ variant = "mongo"
  /\ CanDeliver
  /\ CanFail
  /\ failures' = failures + 1
  /\ \E response \in {NoAnswer(o), ExpressError500(o)} :
       webhooks' = Append(webhooks, [order |-> o, response |-> response, pass |-> "none"])
  /\ UNCHANGED <<variant, eventVars, line_items, now, retries, mongoVars, memoryVars>>

NextMongoLookupFaults ==
  \/ NextMongo
  \/ \E o \in OrderNumbers : MongoWebhookLookupThrows(o)

SpecMongoLookupFaults == InitMongo /\ [][NextMongoLookupFaults]_vars

(***************************************************************************)
(* The dispatch on its own, with failing writes, under the assumption that *)
(* every awaited call of a started task eventually returns or throws: the  *)
(* step of a task that waits for a call is taken eventually.               *)
(***************************************************************************)
\* The awaited call of task t settles, by returning or by throwing.
TaskStep(t) ==
  \/ TaskSave(t)
  \/ TaskSaveThrows(t)
  \/ TaskRender(t)
  \/ TaskSend(t)
  \/ TaskSentSaveThrows(t)
  \/ TaskCatchSaveThrows(t)

NextDispatch ==
  \/ \E o \in OrderNumbers : MongoWebhook(o)
  \/ \E t \in TaskIds : TaskStep(t)

SpecDispatchFair ==
  /\ InitMongo
  /\ [][NextDispatch]_vars
  /\ \A t \in TaskIds : WF_vars(TaskStep(t))

(***************************************************************************)
(* createLimit(3) on its own (src/server.js): callers hand tasks to        *)
(* limit(fn); a started task settles by fulfilling or by rejecting.  A     *)
(* task is "queued", "running", "resolved" or "rejected".                  *)
(***************************************************************************)
LimitTasks == 1..MaxTasks

\* limit(fn): queue.push({ fn, resolve, reject }); process();
LimitSubmit(t) ==
  /\ variant = "limit"
  /\ task[t] = "none"
  /\ LET lim == Submit(Limiter(running, queue), t)
     IN /\ task' = [x \in LimitTasks |->
                      IF x \in lim.started THEN "running"
                      ELSE IF x = t THEN "queued"
                      ELSE task[x]]
        /\ running' = lim.running
        /\ queue' = lim.queue
  /\ UNCHANGED <<variant, eventVars, line_items, now, failures, webhooks, retries, PrintJob, memoryVars>>

\* `await fn()` settles: resolve(result) or reject(error), then
\* finally { running--; process(); }
LimitSettle(t, outcome) ==
  /\ variant = "limit"
  /\ task[t] = "running"
  /\ LET lim == Release(Limiter(running, queue))
     IN /\ task' = [x \in LimitTasks |->
                      IF x = t THEN outcome
                      ELSE IF x \in lim.started THEN "running"
                      ELSE task[x]]
        /\ running' = lim.running
        /\ queue' = lim.queue
  /\ UNCHANGED <<variant, eventVars, line_items, now, failures, webhooks, retries, PrintJob, memoryVars>>

InitLimit ==
  /\ variant = "limit"
  /\ line_items = <<>>
  /\ now = 0
  /\ failures = 0
  /\ webhooks = <<>>
  /\ retries = <<>>
  /\ PrintJob = <<>>
  /\ running = 0
  /\ queue = <<>>
  /\ task = [t \in LimitTasks |-> "none"]
  /\ printJobs = <<>>
  /\ heap = <<>>
  /\ PRINTNODE_WEBHOOK_SECRET = Absent
  /\ PrintNodeEvent = <<>>

NextLimit ==
  \/ \E t \in LimitTasks : LimitSubmit(t)
  \/ \E t \in LimitTasks : LimitSettle(t, "resolved")
  \/ \E t \in LimitTasks : LimitSettle(t, "rejected")

SpecLimit == InitLimit /\ [][NextLimit]_vars

(***************************************************************************)
(* The order in which tasks are issued and started: the dispatch of the    *)
(* per-unit MongoDB variant and createLimit on its own, each run by        *)
(* itself.                                                                 *)
(***************************************************************************)
SpecIssueOrder == (InitMongo \/ InitLimit) /\ [][NextDispatch \/ NextLimit]_vars

(***************************************************************************)
(* The cron-polled variant (src/server.js from line 355): POST /webhooks   *)
(* stores one job document per order, GET /api/cron/process-jobs claims    *)
(* the oldest pending document and prints its units one after another,     *)
(* POST /api/retry-order/:orderId resets a document.  Here PrintJob maps   *)
(* an order_id to its document and `task` maps each cron invocation in     *)
(* progress to its position and to the document object it holds.  An       *)
(* invocation that finds nothing to claim, or is refused with 401, changes *)
(* no state and is a stuttering step.                                      *)
(***************************************************************************)
CronIds == 1..MaxCrons

Idle == [pc |-> "idle"]

DuplicateIgnoredCron(o) == [status |-> 200, message |-> "Duplicate ignored.", order |-> o]
Queued200(o) == [status |-> 200, message |-> "Order received and queued for printing.", order |-> o]
InternalError(o) == [status |-> 500, message |-> "Internal server error.", order |-> o]

\* order.line_items.map(item => ({ ..., quantity: item.quantity, original_item_data: item }))
ItemsToPrint(items) ==
  [i \in 1..Len(items) |-> [quantity |-> items[i].quantity, original_item_data |-> items[i]]]

\* new PrintJob({ order_id: orderNumber, status: 'pending', items_to_print: ... });
\* created_at orders the documents by insertion.
OrderJob(o, items, seq) ==
  [order_id           |-> o,
   status             |-> "pending",
   items_to_print     |-> ItemsToPrint(items),
   processing_details |-> <<>>,
   last_error         |-> Absent,
   created_at         |-> seq]

\* order_id: { type: String, index: true, unique: true }
DuplicateOrderKey(o) == o \in DOMAIN PrintJob

\* POST /webhooks arrives: findOne({ order_id }) answers the duplicate, or
\* the handler builds the document and awaits its save.
CronWebhook(o) ==
  /\ variant = "cron"
  /\ CanDeliver
  /\ webhooks' = Append(webhooks,
        IF \E id \in DOMAIN PrintJob : PrintJob[id].order_id = o
        THEN [order |-> o, at |-> "done", response |-> DuplicateIgnoredCron(o)]
        ELSE [order |-> o, at |-> "save", response |-> NoResponse])
  /\ UNCHANGED <<variant, eventVars, line_items, now, failures, retries, mongoVars, memoryVars>>

\* await newPrintJob.save() settles: the document is stored and the request
\* answered 200, or the unique index on order_id refuses it and the catch
\* block answers 500.
CronWebhookSave(d) ==
  /\ variant = "cron"
  /\ webhooks[d].at = "save"
  /\ LET o == webhooks[d].order
     IN IF DuplicateOrderKey(o)
        THEN /\ webhooks' = [webhooks EXCEPT ![d].at = "done", ![d].response = InternalError(o)]
             /\ UNCHANGED PrintJob
        ELSE /\ PrintJob' = (o :> OrderJob(o, line_items, Cardinality(DOMAIN PrintJob) + 1))
                              @@ PrintJob
             /\ webhooks' = [webhooks EXCEPT ![d].at = "done", ![d].response = Queued200(o)]
  /\ UNCHANGED <<variant, eventVars, line_items, now, failures, retries, running, queue, task, memoryVars>>

\* A reset that forgets to clear last_error.
ResetJobKeepsError(job) ==
  [job EXCEPT !.status = "pending", !.processing_details = <<>>]

\* findOneAndUpdate({ order_id }, { $set: { status: 'pending',
\*   processing_details: [], last_error: null } }), whatever the status.
ResetJob(job) ==
  [job EXCEPT !.status = "pending", !.processing_details = <<>>, !.last_error = Absent]

\* POST /api/retry-order/:orderId
RetryOrder(o) ==
  /\ variant = "cron"
  /\ CanRetry
  /\ IF o \in DOMAIN PrintJob
     THEN /\ PrintJob' = [PrintJob EXCEPT ![o] = ResetJob(@)]
          /\ retries' = Append(retries, [target |-> o, at |-> "200"])
     ELSE /\ retries' = Append(retries, [target |-> o, at |-> "404"])
          /\ UNCHANGED PrintJob
  /\ UNCHANGED <<variant, eventVars, line_items, now, failures, webhooks, running, queue, task, memoryVars>>

PendingOrders == {o \in DOMAIN PrintJob : PrintJob[o].status = "pending"}

\* The sort reversed: the pending document created last.
NewestPending ==
  CHOOSE o \in PendingOrders :
    \A p \in PendingOrders : PrintJob[o].created_at >= PrintJob[p].created_at

\* { status: 'pending' } with sort: { created_at: 1 }
OldestPending ==
  CHOOSE o \in PendingOrders :
    \A p \in PendingOrders : PrintJob[o].created_at <= PrintJob[p].created_at

\* The document object of a cron invocation: the units of its
\* items_to_print in loop order.
JobUnits(job) == Units(job.items_to_print)

\* The loops of process-jobs move on: the next unit's render starts, or the
\* loops end and the final job.save() is awaited.
CronContinue(c, slot) ==
  task' = [task EXCEPT ![c] =
             IF slot.unit < Len(JobUnits(slot.job))
             THEN [slot EXCEPT !.unit = @ + 1, !.pc = "render"]
             ELSE [slot EXCEPT !.pc = "save"]]

\* GET /api/cron/process-jobs claims a job:
\* findOneAndUpdate({ status: 'pending' }, { $set: { status: 'processing' } }, { new: true })
ProcessJobsClaim(c) ==
  /\ variant = "cron"
  /\ task[c].pc = "idle"
  /\ PendingOrders # {}
  /\ LET o   == OldestPending
         job == [PrintJob[o] EXCEPT !.status = "processing"]
     IN /\ PrintJob' = [PrintJob EXCEPT ![o] = job]
        /\ CronContinue(c, [pc |-> "claimed", job |-> job, unit |-> 0,
                            pushed |-> <<>>, hasFailedItems |-> FALSE])
  /\ UNCHANGED <<variant, eventVars, line_items, now, failures, webhooks, retries, running, queue, memoryVars>>

CronCall(c) == 200 + c * 10 + task[c].unit

\* job.processing_details.push({ ..., status: 'sent' / 'failed', ... })
SentDetail(response) ==
  [status |-> "sent", printnode_job_id |-> response, error_message |-> Absent]
FailedDetail(message) ==
  [status |-> "failed", printnode_job_id |-> NoJobId, error_message |-> message]

\* catch (error) { hasFailedItems = true; job.processing_details.push({ status: 'failed' }) }
CronUnitFailed(c, kind) ==
  /\ CanFail
  /\ failures' = failures + 1
  /\ CronContinue(c, [task[c] EXCEPT
        !.pushed = Append(@, FailedDetail(ErrorMessage(kind, CronCall(c)))),
        !.hasFailedItems = TRUE])

\* await createProductLabelPDF(item.original_item_data, orderInfo) settles.
ProcessJobsRender(c) ==
  /\ variant = "cron"
  /\ task[c].pc = "render"
  /\ \/ /\ task' = [task EXCEPT ![c].pc = "send"]
        /\ UNCHANGED failures
     \/ CronUnitFailed(c, "render")
  /\ UNCHANGED <<variant, eventVars, line_items, now, webhooks, retries, PrintJob, running, queue, memoryVars>>

\* await sendToPrintNode(pdfBase64, printTitle) settles.
ProcessJobsSend(c) ==
  /\ variant = "cron"
  /\ task[c].pc = "send"
  /\ \/ /\ CronContinue(c, [task[c] EXCEPT
              !.pushed = Append(@, SentDetail(PrintNodeJobId(CronCall(c))))])
        /\ UNCHANGED failures
     \/ CronUnitFailed(c, "submit")
  /\ UNCHANGED <<variant, eventVars, line_items, now, webhooks, retries, PrintJob, running, queue, memoryVars>>

\* A final save that writes the pushed entries and leaves the status.
SavedJobKeepsStatus(stored, slot) ==
  [stored EXCEPT !.processing_details = @ \o slot.pushed]

\* job.status = hasFailedItems ? 'failed' : 'completed'; job.last_error = ...;
\* await job.save(): the document's changes are written, the status and
\* last_error it set and the entries it pushed onto processing_details.
SavedJob(stored, slot) ==
  [stored EXCEPT
     !.status = IF slot.hasFailedItems THEN "failed" ELSE "completed",
     !.processing_details = @ \o slot.pushed,
     !.last_error = IF slot.hasFailedItems
                    THEN <<"One or more items failed to print. Check processing_details.">>
                    ELSE @]

ProcessJobsSave(c) ==
  /\ variant = "cron"
  /\ task[c].pc = "save"
  /\ PrintJob' = [PrintJob EXCEPT ![task[c].job.order_id] = SavedJob(@, task[c])]
  /\ task' = [task EXCEPT ![c] = Idle]
  /\ UNCHANGED <<variant, eventVars, line_items, now, failures, webhooks, retries, running, queue, memoryVars>>

\* The final job.save() throws: the outer catch answers 500 and writes
\* nothing.
ProcessJobsSaveThrows(c) ==
  /\ variant = "cron"
  /\ task[c].pc = "save"
  /\ CanFail
  /\ failures' = failures + 1
  /\ task' = [task EXCEPT ![c] = Idle]
  /\ UNCHANGED <<variant, eventVars, line_items, now, webhooks, retries, PrintJob, running, queue, memoryVars>>

InitCron ==
  /\ variant = "cron"
  /\ line_items \in Payloads
  /\ now = 0
  /\ failures = 0
  /\ webhooks = <<>>
  /\ retries = <<>>
  /\ PrintJob = <<>>
  /\ running = 0
  /\ queue = <<>>
  /\ task = [c \in CronIds |-> Idle]
  /\ printJobs = <<>>
  /\ heap = <<>>
  /\ PRINTNODE_WEBHOOK_SECRET = Absent
  /\ PrintNodeEvent = <<>>

\* A step of cron invocation c.
CronStep(c) ==
  \/ ProcessJobsClaim(c)
  \/ ProcessJobsRender(c)
  \/ ProcessJobsSend(c)
  \/ ProcessJobsSave(c)
  \/ ProcessJobsSaveThrows(c)

NextCron ==
  \/ \E o \in OrderNumbers : CronWebhook(o)
  \/ \E d \in DOMAIN webhooks : CronWebhookSave(d)
  \/ \E o \in OrderNumbers : RetryOrder(o)
  \/ \E c \in CronIds : CronStep(c)

SpecCron == InitCron /\ [][NextCron]_vars

\* Every cron invocation that holds a job goes on, and the scheduler keeps
\* invoking GET /api/cron/process-jobs while a pending job is stored.
SpecCronFair == SpecCron /\ \A c \in CronIds : WF_vars(CronStep(c))

(***************************************************************************)
(* POST /printnode-webhook, as the MongoDB iterations (variant "mongo",    *)
(* src/unnamed/part_002) and the SQLite-backed part_000 (variant "memory") *)
(* have it.  A header or an environment variable that is not set is        *)
(* Absent; a set one is a one-element sequence holding the string.         *)
(* `webhooks` holds the requests in arrival order.                         *)
(***************************************************************************)
Secrets == {Absent, <<"">>, <<"s3cret">>}
Headers == {Absent, <<"">>, <<"s3cret">>, <<"other">>}

\* The events PrintNode reports.
Events == {[event |-> "print job state change", id |-> 1],
           [event |-> "computer connection", id |-> 2]}

EventsOfLen(n) == [1..n -> Events]

\* req.body: an array of events, or a JSON value that is no array.
Bodies ==
  {[isArray |-> TRUE, events |-> es] : es \in UNION {EventsOfLen(n) : n \in 0..MaxEvents}}
    \cup {[isArray |-> FALSE, events |-> <<>>]}

\* A check that only compares the header with the variable.
UnauthorizedOnMismatch(secret, receivedSecret) == receivedSecret # secret

\* !PRINTNODE_WEBHOOK_SECRET || receivedSecret !== PRINTNODE_WEBHOOK_SECRET
Unauthorized(secret, receivedSecret) ==
  \/ secret = Absent
  \/ secret = <<"">>
  \/ receivedSecret # secret

\* JSON.stringify(item) and the JSON.parse that reads it back.
JSONstringify(item) == <<"{\"event\":", item.event, ",\"id\":", ToString(item.id), "}">>
JSONparse(text) == CHOOSE e \in Events : JSONstringify(e) = text

\* ({ event_type: e.event, content: e }); part_000 stores the content as
\* JSON text: insert.run(item.event, JSON.stringify(item)).
EventDoc(e) ==
  [event_type |-> e.event,
   content    |-> IF variant = "memory" THEN JSONstringify(e) ELSE <<e>>]

EventDocs(events) == [i \in 1..Len(events) |-> EventDoc(events[i])]

Unauthorized401 == [status |-> 401, body |-> "Unauthorized"]
OK200 == [status |-> 200, body |-> "OK"]

\* POST /printnode-webhook arrives.  part_000 answers in the same step,
\* the rows of an array body inserted by one transaction; part_002 awaits
\* insertMany for an array body and answers the other requests at once.
PrintNodeWebhook(receivedSecret, body) ==
  /\ variant \in {"mongo", "memory"}
  /\ CanDeliver
  /\ LET request == [header |-> receivedSecret, body |-> body]
     IN IF Unauthorized(PRINTNODE_WEBHOOK_SECRET, receivedSecret)
        THEN /\ webhooks' = Append(webhooks, request @@ [response |-> Unauthorized401])
             /\ UNCHANGED PrintNodeEvent
        ELSE IF body.isArray /\ variant = "mongo"
        THEN /\ webhooks' = Append(webhooks, request @@ [response |-> NoResponse])
             /\ UNCHANGED PrintNodeEvent
        ELSE /\ webhooks' = Append(webhooks, request @@ [response |-> OK200])
             /\ PrintNodeEvent' = IF body.isArray
                                  THEN PrintNodeEvent \o EventDocs(body.events)
                                  ELSE PrintNodeEvent
  /\ UNCHANGED <<variant, PRINTNODE_WEBHOOK_SECRET, line_items, now, failures, retries,
                 mongoVars, memoryVars>>

\* await PrintNodeEvent.insertMany(eventDocs) settles and the request is
\* answered.
InsertManySettles(r) ==
  /\ variant = "mongo"
  /\ webhooks[r].response = NoResponse
  /\ PrintNodeEvent' = PrintNodeEvent \o EventDocs(webhooks[r].body.events)
  /\ webhooks' = [webhooks EXCEPT ![r].response = OK200]
  /\ UNCHANGED <<variant, PRINTNODE_WEBHOOK_SECRET, line_items, now, failures, retries,
                 mongoVars, memoryVars>>

InitPrintNodeWebhook ==
  /\ variant \in {"mongo", "memory"}
  /\ PRINTNODE_WEBHOOK_SECRET \in Secrets
  /\ PrintNodeEvent = <<>>
  /\ line_items = <<>>
  /\ now = 0
  /\ failures = 0
  /\ webhooks = <<>>
  /\ retries = <<>>
  /\ PrintJob = <<>>
  /\ running = 0
  /\ queue = <<>>
  /\ task = <<>>
  /\ printJobs = <<>>
  /\ heap = <<>>

NextPrintNodeWebhook ==
  \/ \E h \in Headers, b \in Bodies : PrintNodeWebhook(h, b)
  \/ \E r \in DOMAIN webhooks : InsertManySettles(r)

SpecPrintNodeWebhook == InitPrintNodeWebhook /\ [][NextPrintNodeWebhook]_vars

\* The cron-polled variant when no invocation crashes and every write
\* succeeds: each invocation that holds a job goes on until its final save,
\* and an idle one claims when a document is pending.
CronStepNoCrash(c) ==
  \/ ProcessJobsClaim(c)
  \/ ProcessJobsRender(c)
  \/ ProcessJobsSend(c)
  \/ ProcessJobsSave(c)

NextCronNoCrash ==
  \/ \E o \in OrderNumbers : CronWebhook(o)
  \/ \E d \in DOMAIN webhooks : CronWebhookSave(d)
  \/ \E o \in OrderNumbers : RetryOrder(o)
  \/ \E c \in CronIds : CronStepNoCrash(c)

SpecCronNoCrashFair ==
  /\ InitCron
  /\ [][NextCronNoCrash]_vars
  /\ \A c \in CronIds : WF_vars(CronStepNoCrash(c))

\* createLimit when every task function settles once it was called.
FnSettles(t) == LimitSettle(t, "resolved") \/ LimitSettle(t, "rejected")

SpecLimitFair == SpecLimit /\ \A t \in LimitTasks : WF_vars(FnSettles(t))

(***************************************************************************)
(* Properties.                                                             *)
(***************************************************************************)
Passes == {d \in DOMAIN webhooks : webhooks[d].pass # "none"}

TasksOf(d) == {t \in TaskIds : t[1] = d /\ task[t] # "none"}

\* processOrderInBackground of delivery d has finished and none of its tasks
\* is still queued or running.
PassSettled(d) ==
  /\ webhooks[d].pass \in {"resolved", "caught"}
  /\ \A t \in TasksOf(d) : task[t] \in Settled

\* The rows of order o that the expansion created (a retry's row carries a
\* "-retry-" id).
ExpansionRows(o) ==
  {id \in DOMAIN PrintJob : PrintJob[id].order_id = o /\ ~IsRetryId(id)}

\* C1: in the per-unit MongoDB variant, when processOrderInBackground has
\* finished for an accepted order with quantities q_1..q_N, the repository
\* holds exactly q_1+...+q_N attempt rows for that order, one per unit, with
\* pairwise distinct job_attempt_id values (with or without item ids).
C1_SumQuantityRows ==
  \A d \in Passes :
    PassSettled(d) =>
      /\ Cardinality(ExpansionRows(webhooks[d].order)) = SumQuantity(line_items)
      /\ \A t1, t2 \in TasksOf(d) : t1 # t2 => TaskAttemptId(t1) # TaskAttemptId(t2)

\* A delivery of order o arrives in this step.
Delivered(o) ==
  /\ Len(webhooks') = Len(webhooks) + 1
  /\ webhooks'[Len(webhooks')].order = o

\* An earlier delivery of o was accepted and its background processing has
\* finished.
FinishedBefore(o) == \E d \in Passes : webhooks[d].order = o /\ PassSettled(d)

RedeliveryChangesNothing ==
  /\ PrintJob' = PrintJob
  /\ task' = task
  /\ queue' = queue
  /\ running' = running

\* C2 as stated: a redelivery after the first delivery's processing finished
\* leaves the rows unchanged, starts no render or submission and is answered
\* 200 "duplicate ignored", for every payload, one with zero units included.
C2_RedeliveryIgnoredAnyPayload ==
  [][\A o \in OrderNumbers :
       (Delivered(o) /\ FinishedBefore(o)) =>
          /\ RedeliveryChangesNothing
          /\ webhooks'[Len(webhooks')].response = DuplicateIgnored(o)]_vars

\* C2 amended: a redelivery after the first delivery's processing finished
\* leaves the rows unchanged and starts no render or submission for every
\* payload; it is answered 200 "duplicate ignored" when the payload has at
\* least one unit, and 200 "accepted" when it has none.
C2_RedeliveryIgnored ==
  [][\A o \in OrderNumbers :
       (Delivered(o) /\ FinishedBefore(o)) =>
          /\ RedeliveryChangesNothing
          /\ webhooks'[Len(webhooks')].response.status = 200
          /\ webhooks'[Len(webhooks')].response =
               IF SumQuantity(line_items) >= 1 THEN DuplicateIgnored(o) ELSE Accepted(o)]_vars

\* C2 witness: an order with units was processed to the end and a later
\* delivery of it was answered as a duplicate.
C2_Witness ==
  \E d1, d2 \in DOMAIN webhooks :
    /\ d1 < d2
    /\ webhooks[d1].order = webhooks[d2].order
    /\ d1 \in Passes /\ PassSettled(d1)
    /\ SumQuantity(line_items) >= 1
    /\ webhooks[d2].response = DuplicateIgnored(webhooks[d2].order)

\* C3: for any interleaving of deliveries of the same order number, at most
\* one expansion pass that dispatches units is ever started for it.
C3_AtMostOneExpansionPass ==
  \A o \in OrderNumbers :
    Cardinality({d \in Passes : webhooks[d].order = o /\ TasksOf(d) # {}}) <= 1

\* sendToPrintNode calls in flight, from the dispatch and from retry-job.
SendsInFlight ==
  Cardinality({t \in TaskIds : task[t] = "send"})
  + Cardinality({r \in DOMAIN retries : retries[r].at = "send"})

\* C4: in every reachable state at most Concurrency sendToPrintNode calls
\* are in flight, counting the dispatch of all orders and all retry-job
\* requests together.
C4_AtMostKSends == SendsInFlight <= Concurrency

\* The task's own call failed at the given stage and the task recorded it.
TaskFailedAt(t, kind) ==
  /\ task[t] = "failed"
  /\ PrintJob[TaskAttemptId(t)].error_message = ErrorMessage(kind, TaskCall(t))

\* C5: if the submission client fails for exactly one unit of an order (and
\* no render fails), then after processing every other unit's row is `sent`
\* and the failing unit's row is `failed` with the failure's message.
C5_PartialFailureIsolation ==
  \A d \in Passes :
    ( /\ PassSettled(d)
      /\ Cardinality({t \in TasksOf(d) : TaskFailedAt(t, "submit")}) = 1
      /\ \A t \in TasksOf(d) : ~TaskFailedAt(t, "render") )
    => \A t \in TasksOf(d) :
         /\ TaskAttemptId(t) \in DOMAIN PrintJob
         /\ IF TaskFailedAt(t, "submit")
            THEN PrintJob[TaskAttemptId(t)].status = "failed"
            ELSE PrintJob[TaskAttemptId(t)].status = "sent"

\* C6: whenever a render or a submission of an attempt is in flight, the
\* attempt's row is in the repository with status `pending`; the row is
\* there for ever after (no step removes a row), so also after a crash,
\* which loses only the tasks.  A retry renders and submits only for a row
\* it found.
C6_PendingRowBeforeExternalCall ==
  /\ \A t \in TaskIds :
       /\ task[t] \in {"render", "send"} =>
            /\ TaskAttemptId(t) \in DOMAIN PrintJob
            /\ PrintJob[TaskAttemptId(t)].status = "pending"
       /\ task[t] \in Fulfilled => TaskAttemptId(t) \in DOMAIN PrintJob
  /\ variant = "mongo" =>
       \A r \in DOMAIN retries :
         retries[r].at \in {"render", "send"} => retries[r].target \in DOMAIN PrintJob

\* C6 witness: a submission is in flight for a unit whose row is pending.
C6_Witness ==
  \E t \in TaskIds :
    /\ task[t] = "send"
    /\ PrintJob[TaskAttemptId(t)].status = "pending"

\* C7: for a delivery that passes the gate, the 200 acknowledgement has been
\* sent whenever one of its units is queued, saved, rendered or submitted,
\* and no later step changes a response that was sent.
C7_AckBeforeWork ==
  /\ [](\A d \in DOMAIN webhooks :
          (variant = "mongo" /\ TasksOf(d) # {}) =>
             webhooks[d].response = Accepted(webhooks[d].order))
  /\ [][\A d \in DOMAIN webhooks : webhooks'[d].response = webhooks[d].response]_vars

\* C7 witness: an accepted order one of whose units ended `failed`.
C7_Witness ==
  \E t \in TaskIds :
    /\ task[t] = "failed"
    /\ webhooks[t[1]].response = Accepted(webhooks[t[1]].order)

\* C8: a retry never starts a vendor submission for a unit whose attempt is
\* already recorded as `sent`.
C8_NoResubmitOfSent ==
  [][\A r \in DOMAIN retries :
       (variant = "mongo" /\ retries[r].at = "render" /\ retries'[r].at = "send")
          => PrintJob[retries[r].target].status # "sent"]_vars

\* C9: in the in-memory variant, a retry of a `failed` attempt whose
\* submission succeeds leaves the attempt's record with status `sent`, the
\* vendor job id the client returned, and no error.
C9_RetryRecovery ==
  [][\A r \in DOMAIN retries :
       (variant = "memory" /\ retries[r].at = "send" /\ retries'[r].at = "200")
          => /\ heap'[retries[r].ref].status = "sent"
             /\ heap'[retries[r].ref].id = PrintNodeJobId(RetryCall(r))
             /\ heap'[retries[r].ref].error = Absent]_vars

\* C9 witness: a failed attempt was retried, the submission succeeded, and
\* its record is `sent` under the job id of the retry's call.
C9_Witness ==
  \E r \in DOMAIN retries :
    /\ variant = "memory"
    /\ retries[r].at = "200"
    /\ heap[retries[r].ref].status = "sent"
    /\ heap[retries[r].ref].id = PrintNodeJobId(RetryCall(r))
    /\ heap[retries[r].ref].jobAttemptId = retries[r].target

\* The attempt a retry handler works on, in a given repository and heap.
TargetOf(r, rows, hp) ==
  IF variant = "mongo"
  THEN [status |-> rows[retries[r].target].status,
        snapshot |-> rows[retries[r].target].retry_data]
  ELSE [status |-> hp[retries[r].ref].status,
        snapshot |-> hp[retries[r].ref].retryData]

\* The retry of a `failed` attempt fails at submission in this step.  In the
\* in-memory variant the attempt is the record its id names.
FailedRetryOfFailed(r) ==
  /\ retries[r].at = "send"
  /\ retries'[r].at = "500"
  /\ retries'[r].error = ErrorMessage("submit", RetryCall(r))
  /\ TargetOf(r, PrintJob, heap).status = "failed"
  /\ variant = "memory" => FindJob(printJobs, retries[r].target) = retries[r].ref

\* C10: in both retry-job implementations, each retry of a `failed` attempt
\* that fails at submission leaves the attempt in status `failed` with the
\* retry snapshot it had, and a further retry request for it passes the
\* handler's checks (so it renders and submits again); by induction this
\* holds after any number n >= 1 of consecutive failing retries.
C10_FailedRetryRepeatable ==
  [][\A r \in DOMAIN retries :
       FailedRetryOfFailed(r) =>
          /\ TargetOf(r, PrintJob', heap').status = "failed"
          /\ TargetOf(r, PrintJob', heap').snapshot = retries[r].retry_data
          /\ retries[r].retry_data # Absent
          /\ IF variant = "mongo"
             THEN Retryable(retries[r].target)'
             ELSE /\ FindJob(printJobs, retries[r].target)' = retries[r].ref
                  /\ MemoryRetryDisposition(retries[r].ref)' = "render"]_vars

\* C10 witness (in-memory): after a retry of a failed attempt failed at
\* submission, a later retry of the same attempt was accepted and its
\* submission is in flight.
C10_Witness ==
  \E r1, r2 \in DOMAIN retries :
    /\ variant = "memory"
    /\ r1 < r2
    /\ retries[r1].ref = retries[r2].ref
    /\ retries[r1].at = "500"
    /\ retries[r1].error = ErrorMessage("submit", RetryCall(r1))
    /\ retries[r2].at = "send"
    /\ heap[retries[r2].ref].status = "failed"

\* The same in the per-unit MongoDB variant.
C10_WitnessMongo ==
  \E r1, r2 \in DOMAIN retries :
    /\ variant = "mongo"
    /\ r1 < r2
    /\ retries[r1].target = retries[r2].target
    /\ retries[r1].at = "500"
    /\ retries[r1].error = ErrorMessage("submit", RetryCall(r1))
    /\ retries[r2].at = "send"
    /\ PrintJob[retries[r2].target].status = "failed"

C12_MalformedOrderRejected ==
  /\ \A d \in DOMAIN webhooks :
       (variant = "mongo" /\ webhooks[d].order = NoOrderNumber) =>
          /\ webhooks[d].response # Accepted(NoOrderNumber)
          /\ webhooks[d].pass = "none"
          /\ TasksOf(d) = {}
  /\ \A id \in DOMAIN PrintJob : PrintJob[id].order_id # NoOrderNumber

\* The unit an attempt row belongs to: the id without its "-retry-" suffixes.
UnitOf(id) == SubSeq(id, 1, 3)

\* C13: when a retry fails at render or submission, the repository records
\* it: a row of that unit is `failed` and carries the retry's error message.
C13_RetryFailureRecorded ==
  variant = "mongo" =>
    \A r \in DOMAIN retries :
      (retries[r].at = "500" /\ retries[r].error[1] \in {"render", "submit"}) =>
         \E id \in DOMAIN PrintJob :
           /\ UnitOf(id) = UnitOf(retries[r].target)
           /\ PrintJob[id].status = "failed"
           /\ PrintJob[id].error_message = retries[r].error

\* A step of a POST /api/retry-job handler.
RetryStep == retries' # retries

\* C14: no step of POST /api/retry-job changes or removes an existing row;
\* a successful retry inserts exactly one row, `sent`, with the new vendor
\* job id and the order_id and retry_data of the retried row, and no other
\* retry step inserts a row.
C14_RetryInsertsOneRow ==
  [][(variant = "mongo" /\ RetryStep) =>
       /\ \A id \in DOMAIN PrintJob :
            id \in DOMAIN PrintJob' /\ PrintJob'[id] = PrintJob[id]
       /\ \A r \in DOMAIN retries :
            IF retries[r].at = "send" /\ retries'[r].at = "200"
            THEN \E newId \in DOMAIN PrintJob' :
                   /\ DOMAIN PrintJob' = DOMAIN PrintJob \cup {newId}
                   /\ newId \notin DOMAIN PrintJob
                   /\ PrintJob'[newId].job_attempt_id = newId
                   /\ PrintJob'[newId].status = "sent"
                   /\ PrintJob'[newId].printnode_job_id = PrintNodeJobId(RetryCall(r))
                   /\ PrintJob'[newId].order_id = PrintJob[retries[r].target].order_id
                   /\ PrintJob'[newId].retry_data = PrintJob[retries[r].target].retry_data
                   /\ PrintJob'[newId].error_message = Absent
            ELSE retries'[r] # retries[r] => DOMAIN PrintJob' = DOMAIN PrintJob]_vars

\* C14 witness: a retry succeeded and its new row stands next to the row it
\* retried.
C14_Witness ==
  \E r \in DOMAIN retries :
    /\ variant = "mongo"
    /\ retries[r].at = "200"
    /\ retries[r].target \in DOMAIN PrintJob
    /\ \E id \in DOMAIN PrintJob :
         /\ id # retries[r].target
         /\ PrintJob[id].printnode_job_id = PrintNodeJobId(RetryCall(r))

\* The tasks whose function has been called by the limiter.
Started == {t \in TaskIds : task[t] \notin {"none", "queued"}}

\* C15: every row's retry_data is the (item, orderInfo) snapshot that the
\* expansion captured for the row's unit, also for rows created by retries
\* and by retries of retries, and the retry_data of a row never changes.
C15_SnapshotPreserved ==
  /\ [](variant = "mongo" =>
          \A id \in DOMAIN PrintJob :
            \E t \in Started :
              /\ TaskAttemptId(t) = UnitOf(id)
              /\ PrintJob[id].retry_data = RetryData(TaskOrder(t), TaskItem(t)))
  /\ [][\A id \in DOMAIN PrintJob :
          /\ id \in DOMAIN PrintJob'
          /\ PrintJob'[id].retry_data = PrintJob[id].retry_data]_vars

\* C15 witness: a row created by the retry of a row that a retry created.
C15_Witness ==
  \E id \in DOMAIN PrintJob :
    /\ variant = "mongo"
    /\ Len(id) = 7
    /\ SubSeq(id, 1, 5) \in DOMAIN PrintJob
    /\ UnitOf(id) \in DOMAIN PrintJob
    /\ PrintJob[id].retry_data = PrintJob[UnitOf(id)].retry_data

\* C16: no two rows share a job_attempt_id (each row is stored under the
\* id it carries), and an insert of a row whose job_attempt_id is already
\* stored is refused: the task's save throws, the retry's create answers
\* 500 and a retry answers 200 only when its row was added, and every
\* stored row is left as it was.
C16_AttemptIdUnique ==
  /\ [](\A id \in DOMAIN PrintJob : PrintJob[id].job_attempt_id = id)
  /\ [][/\ \A t \in TaskIds :
             (variant = "mongo" /\ task[t] = "save" /\ task'[t] # "save"
                /\ TaskAttemptId(t) \in DOMAIN PrintJob)
                => task'[t] = "rejected" /\ PrintJob' = PrintJob
        /\ \A r \in DOMAIN retries :
             /\ (variant = "mongo" /\ retries[r].at = "send" /\ retries'[r].at = "200")
                   => Cardinality(DOMAIN PrintJob') = Cardinality(DOMAIN PrintJob) + 1
             /\ (variant = "mongo" /\ retries[r].at = "send" /\ retries'[r].at = "500")
                   => PrintJob' = PrintJob]_vars

\* C16 witness: the index has refused a task's insert and a retry's insert.
C16_Witness ==
  /\ variant = "mongo"
  /\ \E t \in TaskIds : task[t] = "rejected"
  /\ \E r \in DOMAIN retries :
       retries[r].at = "500" /\ retries[r].error[1] = "duplicate key"

\* C17: in every reachable state of the repository, a row has a
\* printnode_job_id only if its status is `sent` and an error_message only
\* if its status is `failed`; a `pending` row has neither.
C17_FieldsMatchStatus ==
  \A id \in DOMAIN PrintJob :
    /\ PrintJob[id].printnode_job_id # NoJobId => PrintJob[id].status = "sent"
    /\ PrintJob[id].error_message # Absent => PrintJob[id].status = "failed"

\* The attempt of task t has a row in a terminal status.
AttemptTerminal(t) ==
  /\ task[t] # "none"
  /\ TaskAttemptId(t) \in DOMAIN PrintJob
  /\ PrintJob[TaskAttemptId(t)].status \in Fulfilled

\* C18: if every render, submission and repository call eventually returns
\* or throws, every attempt handed to the limiter eventually has a row in
\* status `sent` or `failed`.
C18_AttemptReachesTerminal ==
  \A t \in TaskIds : (task[t] # "none") ~> AttemptTerminal(t)

\* C19: processOrderInBackground never rejects (its pass ends resolved or
\* with the rejection of Promise.all caught), and a unit whose render or
\* submission has been started never surfaces as an exception: when its
\* task settles the task is fulfilled and its row records the outcome, so a
\* unit whose render or submission failed has a `failed` row.
C19_FailuresPersisted ==
  /\ [](\A d \in DOMAIN webhooks :
          variant = "mongo" => webhooks[d].pass \in {"none", "running", "resolved", "caught"})
  /\ [][\A t \in TaskIds :
          (variant = "mongo" /\ task[t] \in {"render", "send"} /\ task'[t] \in Settled)
             => /\ task'[t] \in Fulfilled
                /\ PrintJob'[TaskAttemptId(t)].status = task'[t]
                /\ task[t] = "render" => task'[t] = "failed"]_vars

\* The tasks waiting in the limiter's queue.
Queued == {queue[i] : i \in DOMAIN queue}

\* C20: for createLimit(3), after any sequence of submissions and
\* completions (by success or by failure) the tasks started and not yet
\* settled are the `running` count and number at most 3, and a submission
\* is never refused: the submitted task is started or waits in the queue,
\* however long the queue is.
C20_LimiterCeiling ==
  /\ [](variant = "limit" =>
          /\ running <= Concurrency
          /\ running = Cardinality({t \in LimitTasks : task[t] = "running"})
          /\ Queued = {t \in LimitTasks : task[t] = "queued"})
  /\ [][\A t \in LimitTasks :
          (variant = "limit" /\ task[t] = "none" /\ task'[t] # "none")
             => \/ task'[t] = "running"
                \/ task'[t] = "queued" /\ queue' = Append(queue, t)]_vars

\* C20 witness: the ceiling is reached with a task waiting, after a task
\* succeeded and a task failed.
C20_Witness ==
  /\ variant = "limit"
  /\ running = Concurrency
  /\ queue # <<>>
  /\ \E t \in LimitTasks : task[t] = "rejected"

\* C21: for createLimit(3), when a task's function throws or rejects only
\* that task's promise rejects: in that step no other task settles, the
\* slot is released and handed to the task at the head of the queue if one
\* waits; tasks wait only while all slots are taken, so every queued task
\* is started by a later completion.
C21_FailureIsolated ==
  /\ [](variant = "limit" => (queue # <<>> => running = Concurrency))
  /\ [][\A t \in LimitTasks :
          (variant = "limit" /\ task[t] = "running" /\ task'[t] = "rejected") =>
             /\ \A x \in LimitTasks \ {t} :
                  \/ task'[x] = task[x]
                  \/ task[x] = "queued" /\ x = Head(queue) /\ task'[x] = "running"
             /\ IF queue = <<>>
                THEN running' = running - 1 /\ queue' = queue
                ELSE /\ running' = running
                     /\ queue' = Tail(queue)
                     /\ task'[Head(queue)] = "running"]_vars

\* C21 witness: one task has rejected, another has resolved, and the tasks
\* that had to wait for them are running.
C21_Witness ==
  /\ variant = "limit"
  /\ \E t \in LimitTasks : task[t] = "rejected"
  /\ \E t \in LimitTasks : task[t] = "resolved"
  /\ running = Concurrency
  /\ queue = <<>>

\* Task t1 of the dispatch is issued before t2: an earlier delivery, or the
\* same delivery and an earlier unit in line-item / copy order.
IssuedBefore(t1, t2) == t1[1] < t2[1] \/ (t1[1] = t2[1] /\ t1[2] < t2[2])

\* A task whose function is called in this step.
Starts(x) == task[x] \in {"none", "queued"} /\ task'[x] \notin {"none", "queued"}

\* C22: the units of an order are handed to the limiter in line-item order
\* and, within an item, in copy order, and the limiter starts tasks in the
\* order of submission: in the dispatch no task has started while a task
\* issued before it still waits; in createLimit a submitted task goes to the
\* end of the queue unless it starts at once with nothing waiting, and a
\* waiting task starts only from the head of the queue.
C22_IssuedAndStartedInOrder ==
  /\ [](variant = "mongo" =>
          /\ \A t1, t2 \in TaskIds :
               (IssuedBefore(t1, t2) /\ task[t2] # "none") =>
                  /\ t1[1] = t2[1] => task[t1] # "none"
                  /\ task[t2] # "queued" => task[t1] # "queued"
          /\ \A i, j \in DOMAIN queue : i < j => IssuedBefore(queue[i], queue[j]))
  /\ [][variant = "limit" =>
          \A x \in LimitTasks :
            /\ (task[x] = "none" /\ task'[x] = "queued") => queue' = Append(queue, x)
            /\ (task[x] = "none" /\ task'[x] = "running") => queue = <<>>
            /\ (task[x] = "queued" /\ task'[x] = "running") =>
                  x = Head(queue) /\ queue' = Tail(queue)]_vars

\* C22 witness: in createLimit every task has been submitted, one has
\* settled, and a task still waits behind a full set of running tasks: a
\* waiting task was started from a queue of two.
C22_Witness ==
  /\ variant = "limit"
  /\ running = Concurrency
  /\ Len(queue) >= 1
  /\ Cardinality({t \in LimitTasks : task[t] \in {"resolved", "rejected"}}) >= 1
  /\ Cardinality({t \in LimitTasks : task[t] = "none"}) = 0

\* The same in the dispatch: a unit waits in the queue behind running units.
C22_WitnessDispatch ==
  /\ variant = "mongo"
  /\ running = Concurrency
  /\ \E t \in TaskIds : task[t] = "queued" /\ t[2] > 1

\* The retry-order request this step answers, if it answers one.
RetryOrderStep == Len(retries') = Len(retries) + 1

\* The cron invocations that hold a claimed document.
Busy(c) == task[c].pc # "idle"

\* C23: in the cron-polled variant a retry-order request for a stored order,
\* whatever its status, leaves it pending with no processing_details and no
\* last_error, keeps its order_id, items_to_print and created_at, changes no
\* other order and is answered 200; for an order that is not stored it is
\* answered 404 and the collection is unchanged; and every cron invocation
\* holds, and the collection keeps, the item snapshots taken from the
\* payload when the order was stored.
C23_RetryOrderFrame ==
  /\ [](variant = "cron" =>
         /\ \A o \in DOMAIN PrintJob :
               PrintJob[o].items_to_print = ItemsToPrint(line_items)
         /\ \A c \in CronIds :
               Busy(c) => /\ task[c].job.items_to_print = ItemsToPrint(line_items)
                          /\ JobUnits(task[c].job) = Units(line_items))
  /\ [][(variant = "cron" /\ RetryOrderStep) =>
         LET r == retries'[Len(retries')]
             o == r.target
         IN IF o \in DOMAIN PrintJob
            THEN /\ r.at = "200"
                 /\ DOMAIN PrintJob' = DOMAIN PrintJob
                 /\ PrintJob'[o].status = "pending"
                 /\ PrintJob'[o].processing_details = <<>>
                 /\ PrintJob'[o].last_error = Absent
                 /\ PrintJob'[o].order_id = PrintJob[o].order_id
                 /\ PrintJob'[o].items_to_print = PrintJob[o].items_to_print
                 /\ PrintJob'[o].created_at = PrintJob[o].created_at
                 /\ \A p \in DOMAIN PrintJob \ {o} : PrintJob'[p] = PrintJob[p]
            ELSE /\ r.at = "404"
                 /\ PrintJob' = PrintJob]_vars

\* An order was processed with a failure and reset by retry-order, and a
\* later cron pass has finished it without failure: its only details are
\* those of the later pass, one per unit, and its last_error is still
\* cleared; a retry-order for an order that is not stored was answered 404.
C23_Witness ==
  /\ variant = "cron"
  /\ failures > 0
  /\ Units(line_items) # <<>>
  /\ \E i \in DOMAIN retries : retries[i].at = "404"
  /\ \E i \in DOMAIN retries :
       /\ retries[i].at = "200"
       /\ retries[i].target \in DOMAIN PrintJob
       /\ LET job == PrintJob[retries[i].target]
          IN /\ job.status = "completed"
             /\ job.last_error = Absent
             /\ Len(job.processing_details) = Len(Units(line_items))
  /\ \A c \in CronIds : ~Busy(c)

\* C24: in the cron-polled variant, under repeated cron invocations, an
\* order whose stored status is processing eventually has the status
\* completed or failed, also when the final job.save() of the invocation
\* that claimed it has failed.
C24_ProcessingEventuallyTerminal ==
  \A o \in OrderNumbers :
    (variant = "cron" /\ o \in DOMAIN PrintJob /\ PrintJob[o].status = "processing")
      ~> (o \in DOMAIN PrintJob /\ PrintJob[o].status \in {"completed", "failed"})

\* Delivery d of the cron-polled POST /webhooks is answered by this step.
AnsweredNow(d) ==
  /\ d \in DOMAIN webhooks'
  /\ webhooks'[d].at = "done"
  /\ d \in DOMAIN webhooks => webhooks[d].at # "done"

\* C25: in the cron-polled variant every delivery to POST /webhooks that is
\* answered when a document of its order number is already stored, the
\* delivery that raced with the first one included, is answered 200 and
\* leaves the collection as it was; and the collection never holds two
\* documents of one order_id.
C25_RedeliveryAnswered200 ==
  /\ [](variant = "cron" => \A o \in DOMAIN PrintJob : PrintJob[o].order_id = o)
  /\ [][variant = "cron" =>
         \A d \in DOMAIN webhooks' :
           (AnsweredNow(d) /\ webhooks'[d].order \in DOMAIN PrintJob) =>
             /\ webhooks'[d].response.status = 200
             /\ PrintJob' = PrintJob]_vars

\* C30: in the cron-polled variant no two cron invocations hold the same
\* order between claim and final save, and while an invocation awaits a
\* vendor submission for an order the stored status of that order is
\* processing.
C30_OneCronPerOrder ==
  variant = "cron" =>
    /\ \A c1, c2 \in CronIds :
         (c1 # c2 /\ Busy(c1) /\ Busy(c2)) =>
           task[c1].job.order_id # task[c2].job.order_id
    /\ \A c \in CronIds :
         task[c].pc = "send" => PrintJob[task[c].job.order_id].status = "processing"

\* The POST /printnode-webhook request r is answered by this step.
EventAnsweredNow(r) ==
  /\ r \in DOMAIN webhooks'
  /\ webhooks'[r].response # NoResponse
  /\ r \in DOMAIN webhooks => webhooks[r].response = NoResponse

\* The events a stored record holds, read back.
ContentOf(doc) ==
  IF variant = "memory" THEN JSONparse(doc.content) ELSE doc.content[1]

\* C26: a POST /printnode-webhook request whose secret header differs from
\* the configured secret, or that arrives when no secret is configured
\* (the variable unset or empty), is answered 401 and stores nothing; a
\* request with the configured secret is answered 200, and when its body is
\* an array of n events exactly n records are appended, the i-th with the
\* type and the full content of the i-th event.
C26_SecretGuardsEvents ==
  [][\A r \in DOMAIN webhooks' :
       EventAnsweredNow(r) =>
         LET req == webhooks'[r]
             configured == PRINTNODE_WEBHOOK_SECRET \notin {Absent, <<"">>}
         IN IF ~configured \/ req.header # PRINTNODE_WEBHOOK_SECRET
            THEN /\ req.response.status = 401
                 /\ PrintNodeEvent' = PrintNodeEvent
            ELSE /\ req.response.status = 200
                 /\ req.body.isArray =>
                      /\ Len(PrintNodeEvent') = Len(PrintNodeEvent) + Len(req.body.events)
                      /\ \A i \in DOMAIN req.body.events :
                           LET doc == PrintNodeEvent'[Len(PrintNodeEvent) + i]
                           IN /\ doc.event_type = req.body.events[i].event
                              /\ ContentOf(doc) = req.body.events[i]
                      /\ \A i \in DOMAIN PrintNodeEvent :
                           PrintNodeEvent'[i] = PrintNodeEvent[i]]_vars

\* One request was refused with 401 and another, with the configured
\* secret and MaxEvents events, was answered 200 after its events were
\* stored.
C26_Witness ==
  /\ Len(webhooks) = 2
  /\ \E r \in DOMAIN webhooks : webhooks[r].response = Unauthorized401
  /\ \E r \in DOMAIN webhooks :
       /\ webhooks[r].response = OK200
       /\ webhooks[r].body.isArray
       /\ Len(webhooks[r].body.events) = MaxEvents
  /\ Len(PrintNodeEvent) = MaxEvents

\* A request without the header was refused while no secret is configured.
C26_WitnessNoSecret ==
  /\ PRINTNODE_WEBHOOK_SECRET = Absent
  /\ PrintNodeEvent = <<>>
  /\ \E r \in DOMAIN webhooks :
       /\ webhooks[r].header = Absent
       /\ webhooks[r].body.isArray
       /\ webhooks[r].body.events # <<>>
       /\ webhooks[r].response = Unauthorized401

\* C27: in the in-memory retry variant GET /api/jobs returns at most
\* JobsCap attempts at any time, also while a POST /webhooks request is
\* still recording its units.
C27_ApiJobsAtMostCap ==
  variant = "memory" => Len(ApiJobs) <= JobsCap

\* The units of delivery d whose submission by the POST /webhooks handler
\* succeeded: their record holds the vendor id that submission returned (a
\* failed unit holds no id, a unit retried later the id of the retry).
SubmittedUnits(d) ==
  {k \in DOMAIN webhooks[d].results :
     heap[webhooks[d].results[k]].id = PrintNodeJobId(TaskCall(<<d, k>>))}

\* C28: in the in-memory retry variant the response of POST /webhooks is
\* 200, its printed count is the number of units the handler submitted
\* successfully, its failed count the number of units whose render or
\* submission failed, and the two add up to the sum of the quantities.
C28_ResponseCounts ==
  variant = "memory" =>
    \A d \in DOMAIN webhooks :
      webhooks[d].phase = "done" =>
        /\ webhooks[d].response.status = 200
        /\ webhooks[d].response.printed = Cardinality(SubmittedUnits(d))
        /\ webhooks[d].response.failed =
             Len(Units(line_items)) - Cardinality(SubmittedUnits(d))
        /\ webhooks[d].response.printed + webhooks[d].response.failed
             = SumQuantity(line_items)

\* C29: in the per-unit MongoDB variant a POST /webhooks request whose
\* idempotency lookup throws is answered 500 and starts no expansion pass.
C29_LookupFailureAnswered500 ==
  variant = "mongo" =>
    \A d \in DOMAIN webhooks :
      webhooks[d].response \notin {Accepted(webhooks[d].order),
                                   DuplicateIgnored(webhooks[d].order)}
        => /\ webhooks[d].response.status = 500
           /\ webhooks[d].pass = "none"
           /\ \A t \in TaskIds : t[1] = d => task[t] = "none"

\* The tasks handed to the limiter so far, and those among them whose
\* pending row was inserted, so that they went on to render and submit.
HandedOver == {t \in TaskIds : task[t] # "none"}
PastInsert(t) == task[t] \in {"render", "send", "sent", "failed"}

\* C31: in the per-unit MongoDB variant, of the tasks of all expansion
\* passes that carry one job_attempt_id at most one gets past the insert of
\* the pending row; a task whose insert the unique index refused is
\* rejected and makes no render and no submission, so each job_attempt_id
\* is submitted at most once by order dispatch.
C31_OneSubmissionPerAttempt ==
  variant = "mongo" =>
    \A t1, t2 \in HandedOver :
      (t1 # t2 /\ TaskAttemptId(t1) = TaskAttemptId(t2)) =>
        ~(PastInsert(t1) /\ PastInsert(t2))

\* Two deliveries of one order were both expanded; for one attempt the task
\* of one pass was submitted and the task of the other pass lost the insert.
C31_Witness ==
  /\ variant = "mongo"
  /\ retries = <<>>
  /\ \E t1, t2 \in HandedOver :
       /\ t1[1] # t2[1]
       /\ TaskAttemptId(t1) = TaskAttemptId(t2)
       /\ task[t1] = "sent"
       /\ task[t2] = "rejected"

\* The call whose failure an error message reports was a render or a
\* submission.
ExternalFailure(message) == message[1] \in {"render", "submit"}

\* C32: in the per-unit MongoDB variant every vendor job id a successful
\* submission returned is stored in a row with status sent, and a row is
\* failed only if its render or its submission failed, also when a write
\* fails or a retry row id collides: a task whose submission returned ends
\* with its row sent under the returned id, a failed row reports a render
\* or submission failure, and a retry is answered 500 only for a render or
\* submission failure.
C32_VendorIdsStored ==
  variant = "mongo" =>
    /\ \A t \in HandedOver :
         task[t] = "sent" =>
           /\ PrintJob[TaskAttemptId(t)].status = "sent"
           /\ PrintJob[TaskAttemptId(t)].printnode_job_id = PrintNodeJobId(TaskCall(t))
    /\ \A id \in DOMAIN PrintJob :
         PrintJob[id].status = "failed" => ExternalFailure(PrintJob[id].error_message)
    /\ \A r \in DOMAIN retries :
         RetryOf(r).at = "500" => ExternalFailure(RetryOf(r).error)

\* C33: in the in-memory retry variant at most one POST /api/retry-job
\* request for a record ends with a successful vendor submission, and no
\* request awaits a submission for a record whose status is already sent.
C33_OneSuccessfulRetry ==
  variant = "memory" =>
    /\ \A r1, r2 \in DOMAIN retries :
         (r1 # r2 /\ RetryOf(r1).ref # 0 /\ RetryOf(r1).ref = RetryOf(r2).ref) =>
           ~(RetryOf(r1).at = "200" /\ RetryOf(r2).at = "200")
    /\ \A r \in DOMAIN retries :
         RetryOf(r).at = "send" => heap[RetryOf(r).ref].status # "sent"

\* An entry of processing_details as the loops of process-jobs push it.
WellFormedDetail(e) ==
  \/ e.status = "sent" /\ e.printnode_job_id # NoJobId /\ e.error_message = Absent
  \/ e.status = "failed" /\ e.printnode_job_id = NoJobId /\ e.error_message # Absent

\* C34: in the cron-polled variant a document whose status is completed or
\* failed holds one processing_details entry per unit, each sent with a
\* vendor job id or failed with an error message; the status is failed
\* exactly when an entry is failed, and last_error is set exactly when the
\* status is failed.
C34_DetailsMatchStatus ==
  variant = "cron" =>
    \A o \in DOMAIN PrintJob :
      LET job == PrintJob[o]
      IN job.status \in {"completed", "failed"} =>
           /\ Len(job.processing_details) = SumQuantity(line_items)
           /\ \A i \in DOMAIN job.processing_details :
                WellFormedDetail(job.processing_details[i])
           /\ job.status = "failed" <=>
                \E i \in DOMAIN job.processing_details :
                  job.processing_details[i].status = "failed"
           /\ job.last_error # Absent <=> job.status = "failed"

\* The cron invocation c claims a document in this step.
Claims(c) == ~Busy(c) /\ Busy(c)'

\* C35: in the cron-polled variant a cron invocation that claims takes one
\* document: it was pending, it becomes processing, no pending document
\* was created before it, and no other document changes; an invocation
\* claims only when a document is pending.
C35_ClaimsOldestPending ==
  [][\A c \in CronIds :
       (variant = "cron" /\ Claims(c)) =>
         LET o == task'[c].job.order_id
         IN /\ o \in PendingOrders
            /\ \A p \in PendingOrders : PrintJob[o].created_at <= PrintJob[p].created_at
            /\ PrintJob' = [PrintJob EXCEPT ![o].status = "processing"]
            /\ task'[c].job = PrintJob'[o]
            /\ \A c2 \in CronIds \ {c} : task'[c2] = task[c2]]_vars

\* Two orders are stored and a retry-order request for the one created
\* first was answered; a cron invocation holds that order while the one
\* created later is still pending.
C35_Witness ==
  /\ variant = "cron"
  /\ Cardinality(DOMAIN PrintJob) = 2
  /\ \E i \in DOMAIN retries : retries[i].at = "200"
  /\ \E c \in CronIds, p \in DOMAIN PrintJob :
       /\ Busy(c)
       /\ task[c].job.created_at = 1
       /\ PrintJob[p].created_at = 2
       /\ PrintJob[p].status = "pending"
       /\ \E i \in DOMAIN retries : retries[i].target = task[c].job.order_id

\* C36: in the cron-polled variant, when cron invocations keep occurring,
\* every external call returns or throws, nothing crashes and no write
\* fails, every stored order eventually has the status completed or failed
\* (retry-order requests are finitely many: at most MaxRequests).
C36_AcceptedEventuallyTerminal ==
  \A o \in OrderNumbers :
    (variant = "cron" /\ o \in DOMAIN PrintJob)
      ~> (o \in DOMAIN PrintJob /\ PrintJob[o].status \in {"completed", "failed"})

\* Both orders were stored and processed to the end, one of them with a
\* failure, after a retry-order request, and no invocation holds a job.
C36_Witness ==
  /\ variant = "cron"
  /\ \E i \in DOMAIN retries : retries[i].at = "200"
  /\ \E o, p \in DOMAIN PrintJob :
       /\ PrintJob[o].status = "completed"
       /\ PrintJob[p].status = "failed"
  /\ \A c \in CronIds : ~Busy(c)

\* C37: createLimit(K) is work-conserving: between event-loop turns a
\* non-empty queue means that exactly K tasks are running, `running` counts
\* the tasks whose function was called and has not settled, and the queue
\* holds exactly the submitted tasks not yet started.
C37_WorkConserving ==
  variant = "limit" =>
    /\ queue # <<>> => running = Concurrency
    /\ running = Cardinality({t \in LimitTasks : task[t] = "running"})
    /\ \A t \in LimitTasks :
         task[t] = "queued" <=> \E i \in DOMAIN queue : queue[i] = t

\* A task has resolved, its slot went to the task at the head of the queue,
\* and one task still waits behind K running ones.
C37_Witness ==
  /\ variant = "limit"
  /\ \E t \in LimitTasks : task[t] = "resolved"
  /\ Len(queue) = 1
  /\ Cardinality({t \in LimitTasks : task[t] = "running"}) = Concurrency

\* C38: for createLimit(K), when every task function settles once called,
\* every task waiting in the queue is eventually started and the promise of
\* every submitted task eventually resolves or rejects.
C38_EverySubmittedTaskSettles ==
  \A t \in LimitTasks :
    /\ (variant = "limit" /\ task[t] = "queued") ~> (task[t] = "running")
    /\ (variant = "limit" /\ task[t] # "none") ~> (task[t] \in {"resolved", "rejected"})

\* All MaxTasks tasks were submitted, more than the K slots, and all have
\* settled, some by rejecting; the limiter is idle again.
C38_Witness ==
  /\ variant = "limit"
  /\ \A t \in LimitTasks : task[t] \in {"resolved", "rejected"}
  /\ \E t \in LimitTasks : task[t] = "rejected"
  /\ \E t \in LimitTasks : task[t] = "resolved"
  /\ running = 0
  /\ queue = <<>>
====
